---- MODULE Spec2Model ----
(***************************************************************************)
(* Model of the two Streamlit utilities of the repository:                 *)
(*   ml/nodal_variables_from_efile.py  (the visualizer, read_exodus_file)  *)
(*   ml/total_variables_in_efile.py    (the inspector, inspect_exodus_file)*)
(* An upload session saves the uploaded bytes to a temporary file, opens   *)
(* it as a netCDF dataset, extracts names and arrays, closes the dataset   *)
(* and renders the result.  Streamlit runs every session's script in its   *)
(* own thread of one server process, so sessions interleave at the file    *)
(* system operations.                                                      *)
(***************************************************************************)
EXTENDS Integers, Sequences, FiniteSets, TLC

\* ------------------------------------------------------------------ bounds
\* Largest declared number of nodal variables (size of num_nod_var).
MaxVars == 2
\* Number of upload sessions the server may run.
NumSessions == 2

Sessions == 1..NumSessions

\* ------------------------------------------------------- name-table cells
\* One position of a fixed-width name row as netCDF4 returns it: possibly
\* masked; a bytes scalar (numpy.bytes_, dtype S1) holding one byte, or a
\* scalar of another dtype that the code stringifies.
B(v) == [masked |-> FALSE, kind |-> "bytes", val |-> v]
M(v) == [masked |-> TRUE, kind |-> "bytes", val |-> v]
O(v) == [masked |-> FALSE, kind |-> "other", val |-> v]

\* Sample rows: plain, right-padded, left-padded, fully masked, partially
\* masked, holding a byte that is no UTF-8 text (0xFF), and non-bytes
\* scalars (the digit 7 twice).  Characters are their code points.
NameRows ==
    { << B(97), B(98) >>,
      << B(97), B(32) >>,
      << B(32), B(97) >>,
      << M(0), M(0) >>,
      << B(97), M(0) >>,
      << B(255), B(97) >>,
      << O(7), O(7) >> }

RECURSIVE Tables(_)
Tables(n) ==
    IF n = 0 THEN { << >> }
    ELSE { Append(t, r) : t \in Tables(n - 1), r \in NameRows }

\* ------------------------------------------------------------------ files
\* The uploaded bytes.  kind "garbage": bytes netCDF4 cannot parse.
\* kind "netcdf": the variables and dimensions present, the size of the
\* num_nod_var dimension, the rows of name_nod_var, and the indices i for
\* which the value array vals_nod_var<i> is present.
Garbage ==
    [kind |-> "garbage", variables |-> {}, dimensions |-> {},
     num_nod_var |-> 0, name_nod_var |-> << >>, vals |-> {}]

\* A netCDF file is consistent with its own metadata: name_nod_var is
\* dimensioned by num_nod_var, so it exists only when the dimension does and
\* has exactly that many rows; value arrays beyond the declared count are
\* never looked at and are left out.
NetcdfFile(vs, ds, n, t, va) ==
    [kind |-> "netcdf", variables |-> vs, dimensions |-> ds,
     num_nod_var |-> n, name_nod_var |-> t, vals |-> va]

OptionalFields == {"time_whole", "coordz"}
CoordFields == {"coordx", "coordy"}
OptionalDims == {"num_elem"}

\* ------------------------------------------------------- decoding of names
\* np.ma.is_masked(row): some position of the row is masked.
is_masked(row) == \E k \in 1..Len(row) : row[k].masked

\* Mutant of compressed: the masked positions are kept.
compressed_keeps_masked(row) == row

\* MaskedArray.compressed(): the unmasked positions, in order.
compressed(row) == SelectSeq(row, LAMBDA c : ~c.masked)

\* str.isspace() for the characters a name can hold.
IsSpace(ch) == ch \in {9, 10, 11, 12, 13, 28, 29, 30, 31, 32}

\* str.strip(): drop leading and trailing whitespace.
RECURSIVE lstrip(_)
lstrip(str) ==
    IF str # << >> /\ IsSpace(Head(str)) THEN lstrip(Tail(str)) ELSE str

RECURSIVE rstrip(_)
rstrip(str) ==
    IF str # << >> /\ IsSpace(str[Len(str)])
    THEN rstrip(SubSeq(str, 1, Len(str) - 1))
    ELSE str

strip(str) == rstrip(lstrip(str))

\* bytes.decode("utf-8") of the single byte a bytes scalar holds: a byte
\* below 0x80 is one character; any other byte alone is no UTF-8 text.
ValidUtf8(c) == c.val < 128

\* What one position contributes to the joined string:
\*   c.tobytes().decode("utf-8", errors=...) if isinstance(c, np.bytes_)
\*   else str(c)
\* errors = "strict" raises UnicodeDecodeError on an invalid byte, "ignore"
\* drops it.  str() of the masked constant is "--", str() of a one-digit
\* scalar is its digit.
code_unit(c, errors) ==
    IF c.masked THEN [raised |-> FALSE, str |-> << 45, 45 >>]
    ELSE IF c.kind = "bytes" THEN
        IF ValidUtf8(c) THEN [raised |-> FALSE, str |-> << c.val >>]
        ELSE IF errors = "ignore" THEN [raised |-> FALSE, str |-> << >>]
        ELSE [raised |-> TRUE, str |-> << >>]
    ELSE [raised |-> FALSE, str |-> << 48 + c.val >>]

\* "".join(... for c in name_bytes): raises as soon as one position raises.
RECURSIVE join(_, _)
join(name_bytes, errors) ==
    IF name_bytes = << >> THEN [raised |-> FALSE, str |-> << >>]
    ELSE LET h == code_unit(Head(name_bytes), errors)
             t == join(Tail(name_bytes), errors)
         IN  IF h.raised \/ t.raised THEN [raised |-> TRUE, str |-> << >>]
             ELSE [raised |-> FALSE, str |-> h.str \o t.str]

\* f"Var_{i+1}" with i the 0-based row index, given here the 1-based index.
Placeholder(i) == << 86, 97, 114, 95, 48 + i >>

\* ------------------------------------------------------ read_exodus_file
\* A raised Python exception, or none.
NoExc == [kind |-> "none", key |-> ""]
Exc(kind, key) == [kind |-> kind, key |-> key]

NoData ==
    [present |-> FALSE, time_steps |-> "", coordinates |-> << >>,
     nodal_data |-> << >>, nodal_vars |-> << >>, mesh_shape |-> << >>]

Raise(e) == [raised |-> TRUE, exc |-> e, value |-> NoData]
Return(v) == [raised |-> FALSE, exc |-> NoExc, value |-> v]

\* time_steps: the time_whole array, or np.array([0]).  Never raises.
time_steps(f) ==
    IF "time_whole" \in f.variables THEN "time_whole" ELSE "default"

\* z: the coordz array, or np.zeros_like(x).
coordz(f) == IF "coordz" \in f.variables THEN "coordz" ELSE "zeros"

\* Mutant of coordinates: a missing y gets a default, as z does.
coordinates_y_defaulted(f) ==
    IF "coordx" \notin f.variables
    THEN [raised |-> TRUE, exc |-> Exc("KeyError", "coordx"), xyz |-> << >>]
    ELSE [raised |-> FALSE, exc |-> NoExc,
          xyz |-> << "coordx",
                     IF "coordy" \in f.variables THEN "coordy" ELSE "zeros",
                     coordz(f) >>]

\* Lines 17-19: x and y are indexed without a test, so a missing one raises
\* KeyError (x first); z has a default.
coordinates(f) ==
    IF "coordx" \notin f.variables
    THEN [raised |-> TRUE, exc |-> Exc("KeyError", "coordx"), xyz |-> << >>]
    ELSE IF "coordy" \notin f.variables
    THEN [raised |-> TRUE, exc |-> Exc("KeyError", "coordy"), xyz |-> << >>]
    ELSE [raised |-> FALSE, exc |-> NoExc,
          xyz |-> << "coordx", "coordy", coordz(f) >>]

\* num_elements: the size of num_elem, or None.
num_elements(f) == IF "num_elem" \in f.dimensions THEN "num_elem" ELSE "None"

\* One pass of the name loop: row i (1-based here) of name_nod_var.  A masked
\* row is compressed first; the joined string is stripped.  Nothing catches
\* the UnicodeDecodeError of a position.
name_str(row) ==
    LET name_bytes == IF is_masked(row) THEN compressed(row) ELSE row
        joined == join(name_bytes, "strict")
    IN  IF joined.raised THEN [raised |-> TRUE, str |-> << >>]
        ELSE [raised |-> FALSE, str |-> strip(joined.str)]

\* The loop "for i in range(num_nod_var)" up to and including row n: the
\* names appended so far, or the exception that ended the loop.
\* dataset["name_nod_var"] raises IndexError when the file has no such
\* variable.
RECURSIVE nod_var_names(_, _)
nod_var_names(f, n) ==
    IF n = 0 THEN [raised |-> FALSE, exc |-> NoExc, names |-> << >>]
    ELSE LET before == nod_var_names(f, n - 1)
         IN  IF before.raised THEN before
             ELSE IF "name_nod_var" \notin f.variables
             THEN [raised |-> TRUE, exc |-> Exc("IndexError", "name_nod_var"),
                   names |-> << >>]
             ELSE LET d == name_str(f.name_nod_var[n])
                  IN  IF d.raised
                      THEN [raised |-> TRUE,
                            exc |-> Exc("UnicodeDecodeError", ""),
                            names |-> << >>]
                      ELSE [raised |-> FALSE, exc |-> NoExc,
                            names |-> Append(before.names, d.str)]

\* Mutant of node_data: the test "if var_name in dataset.variables" is gone,
\* every listed name is bound.
RECURSIVE node_data_unguarded(_, _, _)
node_data_unguarded(f, names, n) ==
    IF n = 0 THEN << >>
    ELSE (names[n] :> n) @@ node_data_unguarded(f, names, n - 1)

\* The loop "for i, name in enumerate(nod_var_names)" up to and including
\* position n: node_data[name] = dataset.variables["vals_nod_var<n>"][:] when
\* that array is present (an array is identified by its index), a printed
\* warning otherwise.  A later assignment to the same key replaces the value.
RECURSIVE node_data(_, _, _)
node_data(f, names, n) ==
    IF n = 0 THEN << >>
    ELSE LET before == node_data(f, names, n - 1)
         IN  IF n \in f.vals THEN (names[n] :> n) @@ before ELSE before

\* Lines 14-42 of read_exodus_file on an open dataset with contents f: the
\* value it is about to return, or the exception that leaves the function.
extract(f) ==
    IF coordinates(f).raised THEN Raise(coordinates(f).exc)
    ELSE IF "num_nod_var" \notin f.dimensions
    THEN Raise(Exc("KeyError", "num_nod_var"))
    ELSE LET r == nod_var_names(f, f.num_nod_var)
         IN  IF r.raised THEN Raise(r.exc)
             ELSE Return(
                 [present |-> TRUE,
                  time_steps |-> time_steps(f),
                  coordinates |-> coordinates(f).xyz,
                  nodal_data |-> node_data(f, r.names, Len(r.names)),
                  nodal_vars |-> r.names,
                  mesh_shape |-> << "len(coordx)", num_elements(f) >>])

\* --------------------------------------------------- inspect_exodus_file
\* One pass of the inspector's decode loop on row i (1-based here): invalid
\* bytes are ignored; any exception of the join yields the fallback name.
decoded_name(row, i) ==
    LET name_bytes == IF is_masked(row) THEN compressed(row) ELSE row
        joined == join(name_bytes, "ignore")
    IN  IF joined.raised THEN Placeholder(i) ELSE strip(joined.str)

decoded_names(var_array) ==
    [i \in 1..Len(var_array) |-> decoded_name(var_array[i], i)]

\* Lines 9-46 of inspect_exodus_file: the raw variables found and the decoded
\* names of the name table (the same loop decodes each of the three name
\* tables; the nodal one is modelled).
inspect(f) ==
    [present |-> TRUE,
     variables_info |-> [fields |-> f.variables, vals |-> f.vals],
     has_nodal_names |-> "name_nod_var" \in f.variables,
     nodal_vars |-> IF "name_nod_var" \in f.variables
                    THEN decoded_names(f.name_nod_var) ELSE << >>]

\* ------------------------------------------------------------------- state
VARIABLES
    app,       \* which script the server runs: "visualizer" or "inspector"
    upload,    \* upload[s]: the bytes session s uploaded
    pc,        \* pc[s]: where session s stands in its script run
    disk,      \* disk[p]: the file at path p, with the session that wrote it
    path,      \* path[s]: the temporary path session s wrote its upload to
    handle,    \* handle[s]: the session's nc.Dataset: state and what it opened
    data,      \* data[s]: the value the read built (with the caller once
               \* pc[s] is past "extracted")
    source,    \* source[s]: the session whose bytes the read of s used
    error,     \* error[s]: the exception raised in, or reported for, session s
    selected   \* selected[s]: the variable the user picked in the selectbox

vars == << app, upload, pc, disk, path, handle, data, source, error, selected >>

\* The names NamedTemporaryFile can draw; the pool has one name per session.
TmpPool == << "tmp1", "tmp2", "tmp3", "tmp4", "tmp5" >>
TmpNames == { TmpPool[k] : k \in 1..NumSessions }
temp_file_path == "temp_exodus_file.e"
Paths == TmpNames \cup {temp_file_path}

NoFile == [exists |-> FALSE, bytes |-> Garbage, writer |-> 0]
NoHandle == [state |-> "none", bytes |-> Garbage, writer |-> 0]
NoSelection == [none |-> TRUE, name |-> << >>]

InitWith(active, inputs) ==
    /\ app \in {"visualizer", "inspector"}
    /\ \E given \in [active -> inputs] :
        upload = [s \in Sessions |-> IF s \in active THEN given[s] ELSE Garbage]
    /\ pc = [s \in Sessions |-> IF s \in active THEN "start" ELSE "off"]
    /\ disk = [p \in Paths |-> NoFile]
    /\ path = [s \in Sessions |-> ""]
    /\ handle = [s \in Sessions |-> NoHandle]
    /\ data = [s \in Sessions |-> NoData]
    /\ source = [s \in Sessions |-> 0]
    /\ error = [s \in Sessions |-> NoExc]
    /\ selected = [s \in Sessions |-> NoSelection]

\* One session uploads any file of the file model: bytes that are no netCDF
\* file, a file without the num_nod_var dimension, or a file that declares n
\* nodal variables, with or without the name table and with any of the n
\* value arrays.
Init ==
    \/ InitWith({1}, {Garbage})
    \/ \E vs \in SUBSET (OptionalFields \cup CoordFields), ds \in SUBSET OptionalDims :
        InitWith({1}, {NetcdfFile(vs, ds, 0, << >>, {})})
    \/ \E n \in 0..MaxVars, va \in SUBSET (1..MaxVars) :
        \E vs \in SUBSET (OptionalFields \cup CoordFields), ds \in SUBSET OptionalDims :
            /\ va \subseteq 1..n
            /\ InitWith({1}, {NetcdfFile(vs, ds \cup {"num_nod_var"}, n, << >>, va)})
    \/ \E n \in 0..MaxVars, va \in SUBSET (1..MaxVars) :
        \E t \in Tables(n) :
            \E vs \in SUBSET (OptionalFields \cup CoordFields),
               ds \in SUBSET OptionalDims :
                /\ va \subseteq 1..n
                /\ InitWith({1}, {NetcdfFile(vs \cup {"name_nod_var"},
                                             ds \cup {"num_nod_var"}, n, t, va)})

\* ---------------------------------------------------------------- actions
\* What the open dataset of s yields when read: the file as it was opened or,
\* when another writer has since rewritten the same path, possibly the file
\* as it now is.
Readable(s) == { [bytes |-> handle[s].bytes, writer |-> handle[s].writer],
                 [bytes |-> disk[path[s]].bytes, writer |-> disk[path[s]].writer] }

\* tempfile.NamedTemporaryFile(delete=False) creates a file under a name no
\* file has (O_EXCL).  The names are interchangeable, so one unused name
\* stands for the random draw.
temp_filename == CHOOSE p \in TmpNames : ~disk[p].exists

\* visualizer, lines 89-91: write the upload to a fresh temporary file.
SaveUpload(s) ==
    /\ app = "visualizer" /\ pc[s] = "start"
    /\ LET p == temp_filename
       IN  /\ disk' = [disk EXCEPT ![p] =
                         [exists |-> TRUE, bytes |-> upload[s], writer |-> s]]
           /\ path' = [path EXCEPT ![s] = p]
    /\ pc' = [pc EXCEPT ![s] = "saved"]
    /\ UNCHANGED << app, upload, handle, data, source, error, selected >>

\* read_exodus_file, line 11: nc.Dataset(file_path, mode='r').
OpenDataset(s) ==
    /\ app = "visualizer" /\ pc[s] = "saved"
    /\ IF disk[path[s]].exists /\ disk[path[s]].bytes.kind = "netcdf"
       THEN /\ handle' = [handle EXCEPT ![s] =
                            [state |-> "open", bytes |-> disk[path[s]].bytes,
                             writer |-> disk[path[s]].writer]]
            /\ pc' = [pc EXCEPT ![s] = "opened"]
            /\ error' = error
       ELSE /\ error' = [error EXCEPT ![s] = Exc("OSError", "open")]
            /\ pc' = [pc EXCEPT ![s] = "raised"]
            /\ handle' = handle
    /\ UNCHANGED << app, upload, disk, path, data, source, selected >>

\* read_exodus_file, lines 14-42: build the result, or leave the function by
\* an exception (the dataset is not closed on that path).
Extract(s) ==
    /\ app = "visualizer" /\ pc[s] = "opened"
    /\ \E r \in Readable(s) :
        LET res == IF r.bytes.kind = "netcdf" THEN extract(r.bytes)
                   ELSE Raise(Exc("OSError", "read"))
        IN  /\ source' = [source EXCEPT ![s] = r.writer]
            /\ IF res.raised
               THEN /\ error' = [error EXCEPT ![s] = res.exc]
                    /\ pc' = [pc EXCEPT ![s] = "raised"]
                    /\ data' = data
               ELSE /\ data' = [data EXCEPT ![s] = res.value]
                    /\ pc' = [pc EXCEPT ![s] = "extracted"]
                    /\ error' = error
    /\ UNCHANGED << app, upload, disk, path, handle, selected >>

\* read_exodus_file, lines 44-52: dataset.close() and return.
CloseAndReturn(s) ==
    /\ app = "visualizer" /\ pc[s] = "extracted"
    /\ handle' = [handle EXCEPT ![s].state = "closed"]
    /\ pc' = [pc EXCEPT ![s] = "returned"]
    /\ UNCHANGED << app, upload, disk, path, data, source, error, selected >>

\* visualizer, line 96: os.remove(temp_filename), after a read that returned.
RemoveTemp(s) ==
    /\ app = "visualizer" /\ pc[s] = "returned"
    /\ disk' = [disk EXCEPT ![path[s]] = NoFile]
    /\ pc' = [pc EXCEPT ![s] = "removed"]
    /\ UNCHANGED << app, upload, path, handle, data, source, error, selected >>

\* The options of st.selectbox(..., data['nodal_vars']): any listed name, or
\* None when the list is empty.
Options(d) ==
    IF d.nodal_vars = << >> THEN {NoSelection}
    ELSE { [none |-> FALSE, name |-> d.nodal_vars[i]] :
             i \in 1..Len(d.nodal_vars) }

\* visualize_data, line 57: data["nodal_data"][selected_var] raises KeyError
\* when the mapping has no such key.
visualize_data(d, sel) ==
    IF sel.none \/ sel.name \notin DOMAIN d.nodal_data
    THEN Exc("KeyError", "selected_var")
    ELSE NoExc

\* visualizer, lines 98-120: show the file information, let the user pick a
\* variable, plot it.  Arrays are identified, not held, so the indexing by
\* time step and the plotting itself have no failure here.
Visualize(s) ==
    /\ app = "visualizer" /\ pc[s] = "removed"
    /\ \E sel \in Options(data[s]) :
        /\ selected' = [selected EXCEPT ![s] = sel]
        /\ error' = [error EXCEPT ![s] = visualize_data(data[s], sel)]
        /\ pc' = [pc EXCEPT ![s] =
                    IF visualize_data(data[s], sel) = NoExc
                    THEN "done" ELSE "raised"]
    /\ UNCHANGED << app, upload, disk, path, handle, data, source >>

\* visualizer, lines 122-123: except Exception as e: st.error(...).
ReportError(s) ==
    /\ app = "visualizer" /\ pc[s] = "raised"
    /\ pc' = [pc EXCEPT ![s] = "done"]
    /\ UNCHANGED << app, upload, disk, path, handle, data, source, error,
                    selected >>

\* inspector, lines 57-59: open(temp_file_path, "wb") and write the upload.
InspectorSave(s) ==
    /\ app = "inspector" /\ pc[s] = "start"
    /\ disk' = [disk EXCEPT ![temp_file_path] =
                  [exists |-> TRUE, bytes |-> upload[s], writer |-> s]]
    /\ path' = [path EXCEPT ![s] = temp_file_path]
    /\ pc' = [pc EXCEPT ![s] = "saved"]
    /\ UNCHANGED << app, upload, handle, data, source, error, selected >>

\* inspect_exodus_file, line 7: nc.Dataset(file_path, mode='r').  Nothing
\* catches its exception: the script run ends with it.
InspectorOpen(s) ==
    /\ app = "inspector" /\ pc[s] = "saved"
    /\ IF disk[path[s]].bytes.kind = "netcdf"
       THEN /\ handle' = [handle EXCEPT ![s] =
                            [state |-> "open", bytes |-> disk[path[s]].bytes,
                             writer |-> disk[path[s]].writer]]
            /\ pc' = [pc EXCEPT ![s] = "opened"]
            /\ error' = error
       ELSE /\ error' = [error EXCEPT ![s] = Exc("OSError", "open")]
            /\ pc' = [pc EXCEPT ![s] = "done"]
            /\ handle' = handle
    /\ UNCHANGED << app, upload, disk, path, data, source, selected >>

\* inspect_exodus_file, lines 9-46.
Inspect(s) ==
    /\ app = "inspector" /\ pc[s] = "opened"
    /\ \E r \in Readable(s) :
        /\ source' = [source EXCEPT ![s] = r.writer]
        /\ IF r.bytes.kind = "netcdf"
           THEN /\ data' = [data EXCEPT ![s] = inspect(r.bytes)]
                /\ pc' = [pc EXCEPT ![s] = "extracted"]
                /\ error' = error
           ELSE /\ error' = [error EXCEPT ![s] = Exc("OSError", "read")]
                /\ pc' = [pc EXCEPT ![s] = "done"]
                /\ data' = data
    /\ UNCHANGED << app, upload, disk, path, handle, selected >>

\* inspect_exodus_file, lines 48-49: dataset.close() and return.
InspectorClose(s) ==
    /\ app = "inspector" /\ pc[s] = "extracted"
    /\ handle' = [handle EXCEPT ![s].state = "closed"]
    /\ pc' = [pc EXCEPT ![s] = "returned"]
    /\ UNCHANGED << app, upload, disk, path, data, source, error, selected >>

\* inspector, lines 64-72: display the names and the raw variables.
Display(s) ==
    /\ app = "inspector" /\ pc[s] = "returned"
    /\ pc' = [pc EXCEPT ![s] = "done"]
    /\ UNCHANGED << app, upload, disk, path, handle, data, source, error,
                    selected >>

Next ==
    \E s \in Sessions :
        \/ SaveUpload(s)
        \/ OpenDataset(s)
        \/ Extract(s)
        \/ CloseAndReturn(s)
        \/ RemoveTemp(s)
        \/ Visualize(s)
        \/ ReportError(s)
        \/ InspectorSave(s)
        \/ InspectorOpen(s)
        \/ Inspect(s)
        \/ InspectorClose(s)
        \/ Display(s)

Spec == Init /\ [][Next]_vars

\* Every session uploads one of a few files, and the sessions run
\* concurrently.
ConcFiles ==
    { Garbage,
      NetcdfFile({"coordx", "coordy", "name_nod_var"}, {"num_nod_var"}, 1,
                 << << B(97), B(98) >> >>, {1}),
      NetcdfFile({"coordx", "coordy", "name_nod_var"}, {"num_nod_var"}, 1,
                 << << B(97), B(32) >> >>, {}),
      NetcdfFile({"coordy"}, {}, 0, << >>, {}) }

InitConc == InitWith(Sessions, ConcFiles)

SpecConc == InitConc /\ [][Next]_vars

\* ================================================================= claims
\* The file session s uploaded, and where its read stands.
File(s) == upload[s]
ReadEnded(s) == pc[s] \in {"returned", "removed", "raised", "done"}
PastExtract(s) == pc[s] \in {"extracted", "returned", "removed", "raised", "done"}
HasCoordinates(f) == f.kind = "netcdf" /\ CoordFields \subseteq f.variables

\* Rows by their content alone.
FullyMasked(row) == \A k \in 1..Len(row) : row[k].masked
HasInvalidByte(row) ==
    \E k \in 1..Len(row) :
        ~row[k].masked /\ row[k].kind = "bytes" /\ row[k].val >= 128
NoInvalidByte(f) ==
    \A i \in 1..Len(f.name_nod_var) : ~HasInvalidByte(f.name_nod_var[i])
\* A file whose name table is there whenever names are declared.
NamesReadable(f) == f.num_nod_var = 0 \/ "name_nod_var" \in f.variables

\* C1: on every exit path of a read, by return or by exception, the dataset
\* handle is closed once the read has ended.
HandleClosedOnEveryExit ==
    \A s \in Sessions : ReadEnded(s) => handle[s].state # "open"

\* C2: with coordx and coordy present and the num_nod_var dimension absent,
\* the visualizer's read succeeds with no names and an empty mapping.
AbsentCountIsNoError ==
    \A s \in Sessions :
        ( /\ app = "visualizer" /\ ReadEnded(s)
          /\ HasCoordinates(File(s))
          /\ "num_nod_var" \notin File(s).dimensions )
        => /\ data[s].present
           /\ data[s].nodal_vars = << >>
           /\ DOMAIN data[s].nodal_data = {}

\* C3: a row that fails to decode gets the name Var_<i>, the read goes on, and
\* the result lists one name for every row, every other row under its own
\* decoded name.
RowDecodeFailureYieldsPlaceholder ==
    \A s \in Sessions :
        ( /\ ReadEnded(s)
          /\ File(s).kind = "netcdf"
          /\ app = "visualizer" => HasCoordinates(File(s))
          /\ "name_nod_var" \in File(s).variables )
        => /\ data[s].present
           /\ Len(data[s].nodal_vars) = File(s).num_nod_var
           /\ \A i \in 1..File(s).num_nod_var :
                IF HasInvalidByte(File(s).name_nod_var[i])
                THEN data[s].nodal_vars[i] = Placeholder(i)
                ELSE data[s].nodal_vars[i] = name_str(File(s).name_nod_var[i]).str

\* C4: when coordx or coordy is absent the visualizer's read ends with the
\* missing-field error of the first absent coordinate (KeyError) and no
\* result, partial or whole, reaches the caller.
MissingCoordinateAbortsRead ==
    \A s \in Sessions :
        ( /\ app = "visualizer" /\ PastExtract(s)
          /\ File(s).kind = "netcdf"
          /\ ~(CoordFields \subseteq File(s).variables) )
        => /\ pc[s] \in {"raised", "done"}
           /\ data[s] = NoData
           /\ selected[s] = NoSelection
           /\ error[s] = Exc("KeyError",
                             IF "coordx" \notin File(s).variables
                             THEN "coordx" ELSE "coordy")

\* C4 witness: a file that declares a named variable with its value array but
\* lacks coordx has been handled to the end: the error is reported, there is
\* no result.
MissingCoordinateWitness ==
    \E s \in Sessions :
        /\ app = "visualizer" /\ pc[s] = "done"
        /\ "coordx" \notin File(s).variables
        /\ "coordy" \in File(s).variables
        /\ File(s).num_nod_var = 1 /\ File(s).vals = {1}
        /\ "name_nod_var" \in File(s).variables
        /\ error[s] = Exc("KeyError", "coordx")
        /\ data[s] = NoData

\* C5: the name at every position whose value array is present is bound to
\* exactly that array, also when two rows decode to the same name.
PositionalCorrespondence ==
    \A s \in Sessions :
        (app = "visualizer" /\ data[s].present)
        => \A i \in 1..Len(data[s].nodal_vars) :
              i \in File(s).vals
              => /\ data[s].nodal_vars[i] \in DOMAIN data[s].nodal_data
                 /\ data[s].nodal_data[data[s].nodal_vars[i]] = i

FullyMaskedRowYieldsPlaceholder ==
    \A s \in Sessions :
        /\ data[s].present =>
            \A i \in 1..Len(data[s].nodal_vars) :
                FullyMasked(File(s).name_nod_var[i])
                => data[s].nodal_vars[i] = Placeholder(i)
        /\ error[s].kind = "UnicodeDecodeError"
           => \E i \in 1..Len(File(s).name_nod_var) :
                 HasInvalidByte(File(s).name_nod_var[i])

\* C7 as amended: a fully masked row decodes to the empty name, no placeholder
\* is put in its place, and decoding it raises nothing: a decode error of the
\* read always comes from an unmasked invalid byte.
FullyMaskedRowYieldsEmptyName ==
    \A s \in Sessions :
        /\ data[s].present =>
            \A i \in 1..Len(data[s].nodal_vars) :
                FullyMasked(File(s).name_nod_var[i])
                => data[s].nodal_vars[i] = << >>
        /\ error[s].kind = "UnicodeDecodeError"
           => \E i \in 1..Len(File(s).name_nod_var) :
                 HasInvalidByte(File(s).name_nod_var[i])

\* C7 witness: the visualizer has returned from reading a table whose second
\* row is fully masked; that row's name is empty, the first row's is not.
FullyMaskedRowWitness ==
    \E s \in Sessions :
        /\ app = "visualizer" /\ pc[s] = "returned"
        /\ data[s].present
        /\ Len(data[s].nodal_vars) = 2
        /\ FullyMasked(File(s).name_nod_var[2])
        /\ data[s].nodal_vars[2] = << >>
        /\ data[s].nodal_vars[1] = << 97, 98 >>

\* C8: with sessions running concurrently, a session's read uses only the
\* bytes that session uploaded, and its result is the result of those bytes.
RequestsAreIsolated ==
    \A s \in Sessions :
        /\ handle[s].writer \in {0, s}
        /\ source[s] \in {0, s}
        /\ (data[s].present /\ File(s).kind = "netcdf")
           => data[s] = IF app = "visualizer"
                        THEN extract(File(s)).value
                        ELSE inspect(File(s))
        /\ data[s].present => File(s).kind = "netcdf"

\* C9: after a successful read every name offered for selection is a key of
\* the value mapping, and plotting a selected name never fails on a missing
\* key.
SelectableVarsAreKeys ==
    \A s \in Sessions :
        (app = "visualizer" /\ data[s].present /\ ReadEnded(s))
        => /\ \A i \in 1..Len(data[s].nodal_vars) :
                 data[s].nodal_vars[i] \in DOMAIN data[s].nodal_data
           /\ ~selected[s].none => error[s] # Exc("KeyError", "selected_var")

\* C10: when the handling of an upload has ended, the temporary copy of the
\* upload is gone from the disk.
TempFileRemovedAtEnd ==
    \A s \in Sessions : pc[s] = "done" => ~disk[path[s]].exists
====
